---------------------------- MODULE Spec2Model ----------------------------
(***************************************************************************)
(* A model of gib.py, the Python 2 interpreter of the Gibberish language:  *)
(* the parser, the stack, the four instruction sets, the step function     *)
(* and the sub-interpreters of exec / while / recall-while.                *)
(*                                                                         *)
(* Conventions.                                                            *)
(*  - A character is a one-character TLA+ string and a Python str is a     *)
(*    sequence of characters; Ord and Chr are ord() and chr() on the       *)
(*    characters the programs and inputs of the model are made of.         *)
(*  - A Python float is an exact fraction num/den in lowest terms with     *)
(*    den > 0 (exact for the small dyadic values the bounds admit).        *)
(*  - A Python list is a TLA+ sequence; Python index k (0-based, negative  *)
(*    counting from the end) is translated by PyGet / PyDel / PyInsert.    *)
(*  - Exceptions follow Python 2.5+: SystemExit is not an Exception.       *)
(***************************************************************************)
EXTENDS Integers, Sequences, FiniteSets, TLC

VARIABLES
  pc,        \* "main" | "run" | "raise" | "exit": where the process is
  source,    \* the code read by main
  frames,    \* the interpreters in flight, top-level first, running one last
  stack,     \* Stack.stack, the list shared by every interpreter
  out,       \* everything written with World.out (sys.stdout.write)
  stdin,     \* what is left of standard input
  exc,       \* the exception in flight (NoExc when none)
  report     \* what main printed about an exception ("" when nothing)

vars == <<pc, source, frames, stack, out, stdin, exc, report>>

---------------------------------------------------------------------------
(* Characters *)

DigitChars == <<"0", "1", "2", "3", "4", "5", "6", "7", "8", "9">>

LowerChars ==
  <<"a", "b", "c", "d", "e", "f", "g", "h", "i", "j", "k", "l", "m",
    "n", "o", "p", "q", "r", "s", "t", "u", "v", "w", "x", "y", "z">>

UpperChars ==
  <<"A", "B", "C", "D", "E", "F", "G", "H", "I", "J", "K", "L", "M",
    "N", "O", "P", "Q", "R", "S", "T", "U", "V", "W", "X", "Y", "Z">>

\* the other characters the programs of the model are written with
OtherChars ==
  [c \in {"\t", "\n", " ", "!", "+", "-", ".", ":", "[", "]"} |->
     CASE c = "\t" -> 9
       [] c = "\n" -> 10
       [] c = " "  -> 32
       [] c = "!"  -> 33
       [] c = "+"  -> 43
       [] c = "-"  -> 45
       [] c = "."  -> 46
       [] c = ":"  -> 58
       [] c = "["  -> 91
       [] c = "]"  -> 93]

Index(cs, c) == CHOOSE i \in 1..Len(cs) : cs[i] = c
Has(cs, c)   == \E i \in 1..Len(cs) : cs[i] = c

\* ord(c)
Ord(c) ==
  IF c \in DOMAIN OtherChars THEN OtherChars[c]
  ELSE IF Has(DigitChars, c) THEN 47 + Index(DigitChars, c)
  ELSE IF Has(UpperChars, c) THEN 64 + Index(UpperChars, c)
  ELSE 96 + Index(LowerChars, c)

\* the codes chr() has a character of the model for
HasChr(k) ==
  \/ k \in 48..57 \/ k \in 65..90 \/ k \in 97..122
  \/ \E c \in DOMAIN OtherChars : OtherChars[c] = k

\* chr(k)
Chr(k) ==
  IF k \in 48..57 THEN DigitChars[k - 47]
  ELSE IF k \in 65..90 THEN UpperChars[k - 64]
  ELSE IF k \in 97..122 THEN LowerChars[k - 96]
  ELSE CHOOSE c \in DOMAIN OtherChars : OtherChars[c] = k

Digits == {"0", "1", "2", "3", "4", "5", "6", "7", "8", "9"}

\* int(c) of a digit
DigitVal(c) == Index(DigitChars, c) - 1

\* whitespace without the tab
Whitespace_NoTab == {" ", "\n"}

Whitespace == {" ", "\n", "\t"}

---------------------------------------------------------------------------
(* Values: NUMT = float, STRT = str *)

Abs(x) == IF x < 0 THEN -x ELSE x

RECURSIVE GCD(_, _)
GCD(a, b) == IF b = 0 THEN a ELSE GCD(b, a % b)

\* the float num/den, den # 0 (num and den are evaluated once)
Num(num, den) ==
  CHOOSE v \in
    {LET g == GCD(Abs(n), Abs(d))
         s == IF d < 0 THEN -1 ELSE 1
     IN  [t |-> "number", num |-> (s * n) \div g, den |-> Abs(d) \div g,
          s |-> <<>>] : n \in {num}, d \in {den}} : TRUE

\* NUMT(i) of an int or bool
NUMT(i) == [t |-> "number", num |-> i, den |-> 1, s |-> <<>>]

STRT(s) == [t |-> "string", num |-> 0, den |-> 1, s |-> s]

IsNum(v) == v.t = "number"
IsStr(v) == v.t = "string"

\* int(n) of a float: truncation toward zero
int(v) == IF v.num >= 0 THEN v.num \div v.den ELSE -((-v.num) \div v.den)

\* Python truth value: 0.0 and "" are false
Truthy(v) == IF IsNum(v) THEN v.num # 0 ELSE Len(v.s) > 0

---------------------------------------------------------------------------
(* Python lists *)

PyIndexOK(l, k) == -Len(l) <= k /\ k < Len(l)

\* l[k]
PyGet(l, k) == IF k >= 0 THEN l[k + 1] ELSE l[Len(l) + k + 1]

\* del l[k]
PyDel(l, k) ==
  LET i == IF k >= 0 THEN k + 1 ELSE Len(l) + k + 1
  IN  SubSeq(l, 1, i - 1) \o SubSeq(l, i + 1, Len(l))

\* l[k] = v
PySet(l, k, v) ==
  LET i == IF k >= 0 THEN k + 1 ELSE Len(l) + k + 1
  IN  [l EXCEPT ![i] = v]

\* l.insert(k, v): the index is clamped to 0..len(l), never an error
PyInsert(l, k, v) ==
  LET k1 == IF k < 0 THEN k + Len(l) ELSE k
      k2 == IF k1 < 0 THEN 0 ELSE IF k1 > Len(l) THEN Len(l) ELSE k1
  IN  SubSeq(l, 1, k2) \o <<v>> \o SubSeq(l, k2 + 1, Len(l))

\* l[a:b]
PySlice(l, a, b) ==
  LET n  == Len(l)
      a1 == IF a < 0 THEN (IF a + n < 0 THEN 0 ELSE a + n)
            ELSE IF a > n THEN n ELSE a
      b1 == IF b < 0 THEN (IF b + n < 0 THEN 0 ELSE b + n)
            ELSE IF b > n THEN n ELSE b
  IN  SubSeq(l, a1 + 1, b1)

---------------------------------------------------------------------------
(* class Stack.  Each operation gives [ok, stack]; ok = FALSE is the       *)
(* IndexError Python raises, and the list is then as the operation left it *)

StackOK(stk)  == [ok |-> TRUE, stack |-> stk]
StackErr(stk) == [ok |-> FALSE, stack |-> stk]

push(stk, value) == Append(stk, value)

pop(stk) ==
  IF Len(stk) = 0 THEN StackErr(stk)
  ELSE StackOK(SubSeq(stk, 1, Len(stk) - 1))

swapn(stk, n) ==
  IF ~PyIndexOK(stk, -1 - n) THEN StackErr(stk)
  ELSE LET foo == PyGet(stk, -1 - n)
           s1  == PySet(stk, -1 - n, PyGet(stk, -1))
       IN  StackOK(PySet(s1, -1, foo))

copy(stk, n) ==
  IF ~PyIndexOK(stk, -1 - n) THEN StackErr(stk)
  ELSE StackOK(Append(stk, PyGet(stk, -1 - n)))

move(stk, n) ==
  IF ~PyIndexOK(stk, -1 - n) THEN StackErr(stk)
  ELSE LET s1 == Append(stk, PyGet(stk, -1 - n))
       IN  IF ~PyIndexOK(s1, -1 - n) THEN StackErr(s1)
           ELSE StackOK(PyDel(s1, -1 - n))

insert(stk, n, value) == StackOK(PyInsert(stk, -n - 1, value))

invcopy(stk, n) ==
  IF ~PyIndexOK(stk, n) THEN StackErr(stk)
  ELSE StackOK(Append(stk, PyGet(stk, n)))

\* invmove that appends the element and deletes nothing
invmove_NoDelete(stk, n) == invcopy(stk, n)

invmove(stk, n) ==
  IF ~PyIndexOK(stk, n) THEN StackErr(stk)
  ELSE LET s1 == Append(stk, PyGet(stk, n))
       IN  IF ~PyIndexOK(s1, n) THEN StackErr(s1)
           ELSE StackOK(PyDel(s1, n))

---------------------------------------------------------------------------
(* class Parser *)

\* Parser.Item(type, value)
Item(type, value) == [type |-> type, value |-> value]

\* errstr(code, error, position): the error and the position it reports
errstr(code, error, position) == [error |-> error, position |-> position]

NoError == [error |-> "", position |-> -1]

\* the inner loop of parse keeping no bracket of the groups inside the string
RECURSIVE ScanString_DropInner(_, _, _, _)
ScanString_DropInner(string, i, lvl, curstr) ==
  IF lvl <= 0 THEN [ok |-> TRUE, i |-> i, curstr |-> curstr, position |-> -1]
  ELSE LET i1 == i + 1 IN
    IF i1 >= Len(string) /\ lvl > 0
    THEN [ok |-> FALSE, i |-> i1, curstr |-> curstr, position |-> i1 - 1]
    ELSE LET c    == string[i1 + 1]
             lvl1 == IF c = "]" THEN lvl - 1
                     ELSE IF c = "[" THEN lvl + 1
                     ELSE lvl
             cur1 == IF c \notin {"[", "]"} THEN Append(curstr, c) ELSE curstr
         IN  ScanString_DropInner(string, i1, lvl1, cur1)

\* The inner loop of parse, "while lvl>0", entered with i at the opening
\* bracket: [ok, i, curstr, position], i the index of the closing bracket
RECURSIVE ScanString(_, _, _, _)
ScanString(string, i, lvl, curstr) ==
  IF lvl <= 0 THEN [ok |-> TRUE, i |-> i, curstr |-> curstr, position |-> -1]
  ELSE LET i1 == i + 1 IN
    IF i1 >= Len(string) /\ lvl > 0
    THEN [ok |-> FALSE, i |-> i1, curstr |-> curstr, position |-> i1 - 1]
    ELSE LET c    == string[i1 + 1]
             lvl1 == IF c = "]" THEN lvl - 1
                     ELSE IF c = "[" THEN lvl + 1
                     ELSE lvl
             cur1 == IF lvl1 # 0 THEN Append(curstr, c) ELSE curstr
         IN  ScanString(string, i1, lvl1, cur1)

\* The outer loop of parse, "while i<len(string)"
RECURSIVE ParseFrom(_, _, _)
ParseFrom(string, i, items) ==
  IF i >= Len(string)
  THEN [ok |-> TRUE, items |-> items, err |-> NoError]
  ELSE LET c == string[i + 1] IN
    IF c \in Digits
    THEN ParseFrom(string, i + 1,
                   Append(items, Item("CONSTANT", NUMT(DigitVal(c)))))
    ELSE IF c = "["
    THEN LET r == ScanString(string, i, 1, <<>>) IN
         IF ~r.ok
         THEN [ok |-> FALSE, items |-> items,
               err |-> errstr(string, "unterminated [", r.position)]
         ELSE ParseFrom(string, r.i + 1,
                        Append(items, Item("CONSTANT", STRT(r.curstr))))
    ELSE IF c \in Whitespace
    THEN ParseFrom(string, i + 1, items)
    ELSE IF c = "]"
    THEN [ok |-> FALSE, items |-> items,
          err |-> errstr(string, "] without [", i)]
    ELSE ParseFrom(string, i + 1,
                   Append(items, Item("COMMAND", STRT(<<c>>))))

\* Parser.parse(string): [ok, items, err]; ok = FALSE is the ValueError
parse(string) == ParseFrom(string, 0, <<>>)

---------------------------------------------------------------------------
(* class Interpreter: exceptions and the helpers of the command handlers.  *)
(* A handler works on m, the interpreter's fields and what it shares:      *)
(*   [code, ip, activeset, stack, out, stdin, exc, call]                   *)
(* exc is the exception the handler raised (NoExc: none) and call the      *)
(* string it handed to World.recurse (call.on = FALSE: none).              *)

\* An exception: its class, its message, the ip of the interpreter whose
\* err() made the message (-1: no ip context), the messages it wraps, and
\* the position an errstr of the parser put into the message (-1: none)
NoExc ==
  [type |-> "", msg |-> "", ip |-> -1, cause |-> <<>>, position |-> -1]

Exception(type, msg) ==
  [type |-> type, msg |-> msg, ip |-> -1, cause |-> <<>>, position |-> -1]

\* raise ValueError(errstr(string, error, position)) of Parser.parse
ValueError(err) ==
  [Exception("ValueError", err.error) EXCEPT !.position = err.position]

NoCall == [on |-> FALSE, codestr |-> <<>>]

\* raise Interpreter.CodeError(self.err(error))
CodeError(m, error) ==
  [m EXCEPT !.exc = [type |-> "CodeError", msg |-> error, ip |-> m.ip,
                     cause |-> <<>>, position |-> -1]]

\* an exception of Python that no handler of the interpreter has wrapped
Raise(m, type, msg) == [m EXCEPT !.exc = Exception(type, msg)]

Raised(m) == m.exc # NoExc

Top(m) == m.stack[Len(m.stack)]

\* what a function handed to unarystackf / binstackf / tristackf gives:
\* the machine after it and its return value
Ret(m, res) == [m |-> m, res |-> res]

None == STRT(<<>>)

\* sf(self.stack.pop, []) : the machine after the pop, or after the
\* "stack error" CodeError made of the IndexError
sf_pop(m) ==
  LET r == pop(m.stack) IN
  IF r.ok THEN [m EXCEPT !.stack = r.stack]
  ELSE CodeError(m, "stack error")

\* sf(self.stack.push, [value])
sf_push(m, value) == [m EXCEPT !.stack = push(m.stack, value)]

\* raiseTypeErr(expected, got)
raiseTypeErr(m, expected, got) == CodeError(m, "wrong type")

\* the end of every stackfunc: r is what f gave, [m, res]; the result is
\* pushed when pushresult
stackfunc(r, pushresult) ==
  IF Raised(r.m) THEN r.m
  ELSE IF pushresult THEN sf_push(r.m, r.res)
  ELSE r.m

\* the start of unarystackf's stackfunc: the pop and the type check; ntype ""
\* is None
unaryargs(m, ntype) ==
  LET m1 == sf_pop(m) IN
  IF Raised(m1) THEN m1
  ELSE LET a == Top(m) IN
    IF ntype # "" /\ a.t # ntype THEN raiseTypeErr(m1, ntype, a.t)
    ELSE m1

\* the start of binstackf's stackfunc: b is popped, then a, then b's type
\* is checked, then a's
binargs(m, atype, btype) ==
  LET m1 == sf_pop(m) IN
  IF Raised(m1) THEN m1
  ELSE LET b  == Top(m)
           m2 == sf_pop(m1)
       IN
    IF Raised(m2) THEN m2
    ELSE LET a == Top(m1) IN
      IF btype # "" /\ b.t # btype THEN raiseTypeErr(m2, btype, b.t)
      ELSE IF atype # "" /\ a.t # atype THEN raiseTypeErr(m2, atype, a.t)
      ELSE m2

\* the start of tristackf's stackfunc: c, b and a are popped, then their
\* types are checked in that order
triargs(m, atype, btype, ctype) ==
  LET m1 == sf_pop(m) IN
  IF Raised(m1) THEN m1
  ELSE LET c  == Top(m)
           m2 == sf_pop(m1)
       IN
    IF Raised(m2) THEN m2
    ELSE LET b  == Top(m1)
             m3 == sf_pop(m2)
         IN
      IF Raised(m3) THEN m3
      ELSE LET a == Top(m2) IN
        IF ctype # "" /\ c.t # ctype THEN raiseTypeErr(m3, ctype, c.t)
        ELSE IF btype # "" /\ b.t # btype THEN raiseTypeErr(m3, btype, b.t)
        ELSE IF atype # "" /\ a.t # atype THEN raiseTypeErr(m3, atype, a.t)
        ELSE m3

\* unarystackf(f, ntype, pushresult)()
unarystackf(m, f(_, _), ntype, pushresult) ==
  LET m1 == unaryargs(m, ntype) IN
  IF Raised(m1) THEN m1
  ELSE stackfunc(f(m1, Top(m)), pushresult)

\* binstackf(f, atype, btype, pushresult)()
binstackf(m, f(_, _, _), atype, btype, pushresult) ==
  LET m2 == binargs(m, atype, btype) IN
  IF Raised(m2) THEN m2
  ELSE stackfunc(f(m2, Top(sf_pop(m)), Top(m)), pushresult)

\* tristackf(f, atype, btype, ctype, pushresult)()
tristackf(m, f(_, _, _, _), atype, btype, ctype, pushresult) ==
  LET m3 == triargs(m, atype, btype, ctype) IN
  IF Raised(m3) THEN m3
  ELSE stackfunc(f(m3, Top(sf_pop(sf_pop(m))), Top(sf_pop(m)), Top(m)),
                 pushresult)

\* a stack function called outside sf: its IndexError is raised as it is
StackCall(m, r) ==
  IF r.ok THEN Ret([m EXCEPT !.stack = r.stack], None)
  ELSE Ret(Raise([m EXCEPT !.stack = r.stack], "IndexError",
                 "list index out of range"), None)

\* sf(func, []) of a stack function: its IndexError becomes a CodeError
sf(m, r) ==
  IF r.ok THEN [m EXCEPT !.stack = r.stack]
  ELSE CodeError([m EXCEPT !.stack = r.stack], "stack error")

---------------------------------------------------------------------------
(* Python's conversions between str and numbers.  A conversion gives       *)
(* [kind, val]: kind "ok", "ValueError", or "OutOfModel" for the inputs    *)
(* whose result the fractions of this model cannot hold (exponents, inf,   *)
(* nan, longs) or that this model does not decide.                         *)

Conv(kind, val) == [kind |-> kind, val |-> val]

\* str(i) of an int
RECURSIVE NatStr(_)
NatStr(i) ==
  IF i < 10 THEN <<DigitChars[i + 1]>>
  ELSE Append(NatStr(i \div 10), DigitChars[(i % 10) + 1])

IntStr(i) == IF i < 0 THEN <<"-">> \o NatStr(-i) ELSE NatStr(i)

\* the characters str.strip(), int() and float() skip, among those of the
\* model
PySpace == {"\t", "\n", " "}

RECURSIVE LStrip(_)
LStrip(s) ==
  IF Len(s) > 0 /\ s[1] \in PySpace THEN LStrip(Tail(s)) ELSE s

RECURSIVE RStrip(_)
RStrip(s) ==
  IF Len(s) > 0 /\ s[Len(s)] \in PySpace
  THEN RStrip(SubSeq(s, 1, Len(s) - 1)) ELSE s

Strip(s) == LStrip(RStrip(s))

AllDigits(s) == Len(s) > 0 /\ \A i \in 1..Len(s) : s[i] \in Digits

RECURSIVE DigitsVal(_)
DigitsVal(s) ==
  IF Len(s) = 0 THEN 0
  ELSE 10 * DigitsVal(SubSeq(s, 1, Len(s) - 1)) + DigitVal(s[Len(s)])

RECURSIVE Pow10(_)
Pow10(k) == IF k = 0 THEN 1 ELSE 10 * Pow10(k - 1)

Signed(t) == Len(t) > 0 /\ t[1] \in {"+", "-"}
Unsign(t) == IF Signed(t) THEN Tail(t) ELSE t
SignOf(t) == IF Len(t) > 0 /\ t[1] = "-" THEN -1 ELSE 1

\* [sign] digits
IsIntLit(t) == AllDigits(Unsign(t))

\* [sign] digits . digits, with a digit somewhere
IsDecLit(t) ==
  LET u == Unsign(t) IN
  \E k \in 1..Len(u) :
    /\ u[k] = "."
    /\ \A i \in 1..Len(u) : i # k => u[i] \in Digits
    /\ Len(u) > 1

DecVal(t) ==
  LET u == Unsign(t)
      k == CHOOSE k \in 1..Len(u) : u[k] = "."
  IN  CHOOSE v \in
        {Num(SignOf(t) * (DigitsVal(w) * Pow10(Len(f)) + DigitsVal(f)),
             Pow10(Len(f))) :
           w \in {SubSeq(u, 1, k - 1)}, f \in {SubSeq(u, k + 1, Len(u))}} :
        TRUE

\* the letters of exponents, inf, infinity, nan and long suffixes
NumericLetters ==
  {"e", "E", "i", "I", "n", "N", "f", "F", "a", "A", "t", "T", "y", "Y",
   "l", "L"}

\* no literal of int() or float() whatever the reading
SurelyInvalid(t) ==
  \/ Len(t) = 0
  \/ \E i \in 1..Len(t) :
       t[i] \notin Digits \cup NumericLetters \cup PySpace
                   \cup {"+", "-", "."}
  \/ /\ \A i \in 1..Len(t) : t[i] \in Digits \cup {"+", "-", "."}
     /\ ~IsIntLit(t)
     /\ ~IsDecLit(t)

\* int(s) of a str
StrToInt(s) ==
  CHOOSE c \in
    {IF IsIntLit(t) THEN Conv("ok", NUMT(SignOf(t) * DigitsVal(Unsign(t))))
     ELSE IF IsDecLit(t) \/ SurelyInvalid(t) THEN Conv("ValueError", None)
     ELSE Conv("OutOfModel", None) : t \in {Strip(s)}} : TRUE

\* float(s) of a str
StrToFloat(s) ==
  CHOOSE c \in
    {IF IsIntLit(t) THEN Conv("ok", NUMT(SignOf(t) * DigitsVal(Unsign(t))))
     ELSE IF IsDecLit(t) THEN Conv("ok", DecVal(t))
     ELSE IF SurelyInvalid(t) THEN Conv("ValueError", None)
     ELSE Conv("OutOfModel", None) : t \in {Strip(s)}} : TRUE

\* the digits of the fraction r/den, 0 <= r < den, when it ends within k digits
RECURSIVE FracDigits(_, _, _)
FracDigits(r, den, k) ==
  IF r = 0 THEN <<>>
  ELSE IF k = 0 THEN <<"...">>
  ELSE <<DigitChars[((10 * r) \div den) + 1]>>
         \o FracDigits((10 * r) % den, den, k - 1)

\* str(x) of a float: "%.12g", and ".0" after an integer
FloatStr(v) ==
  LET a  == Abs(v.num)
      sg == IF v.num < 0 THEN <<"-">> ELSE <<>>
  IN  CHOOSE c \in
        {IF v.den = 1 THEN Conv("ok", sg \o NatStr(a) \o <<".", "0">>)
         ELSE IF \E i \in 1..Len(fd) : fd[i] = "..."
         THEN Conv("OutOfModel", <<>>)
         ELSE Conv("ok", sg \o NatStr(a \div v.den) \o <<".">> \o fd) :
           fd \in {FracDigits(a % v.den, v.den, 4)}} : TRUE

\* v2str(n): [kind, val], val a str
v2str(n) ==
  IF IsStr(n) /\ n.s = <<>> THEN Conv("ok", n.s)
  ELSE IF IsStr(n) /\ (n.s[1] = " " \/ n.s[Len(n.s)] = " ")
  THEN Conv("ok", n.s)
  ELSE IF IsNum(n) THEN Conv("ok", IntStr(int(n)))
  ELSE CHOOSE c \in
    {IF i.kind = "ok" THEN Conv("ok", IntStr(i.val.num))
     ELSE IF i.kind = "OutOfModel" THEN Conv("OutOfModel", <<>>)
     ELSE IF f.kind = "ok" THEN FloatStr(f.val)
     ELSE IF f.kind = "OutOfModel" THEN Conv("OutOfModel", <<>>)
     ELSE Conv("ok", n.s) :
       i \in {StrToInt(n.s)}, f \in {StrToFloat(n.s)}} : TRUE

---------------------------------------------------------------------------
(* Arithmetic of the operator module on floats and ints *)

add(a, b) == Num(a.num * b.den + b.num * a.den, a.den * b.den)
sub(a, b) == Num(a.num * b.den - b.num * a.den, a.den * b.den)
mul(a, b) == Num(a.num * b.num, a.den * b.den)
\* a / b, b # 0
div(a, b) == Num(a.num * b.den, a.den * b.num)
\* a % b, b # 0: the sign of the result is the sign of b
mod(a, b) ==
  LET q == Num(a.num * b.den, a.den * b.num)
      f == q.num \div q.den
  IN  sub(a, mul(NUMT(f), b))

\* a < b of two values of Python 2: a number is below every str, strs
\* compare byte by byte
RECURSIVE StrLess(_, _)
StrLess(x, y) ==
  IF Len(y) = 0 THEN FALSE
  ELSE IF Len(x) = 0 THEN TRUE
  ELSE IF x[1] # y[1] THEN Ord(x[1]) < Ord(y[1])
  ELSE StrLess(Tail(x), Tail(y))

lt(a, b) ==
  IF IsNum(a) /\ IsNum(b) THEN a.num * b.den < b.num * a.den
  ELSE IF IsNum(a) THEN TRUE
  ELSE IF IsNum(b) THEN FALSE
  ELSE StrLess(a.s, b.s)

gt(a, b) == lt(b, a)

eq(a, b) == a = b

\* bool as the int push() widens to a float
Bool(p) == IF p THEN 1 ELSE 0

RECURSIVE Pow2(_)
Pow2(k) == IF k = 0 THEN 1 ELSE 2 * Pow2(k - 1)

\* x & y and x | y of two ints (two's complement of unbounded width)
RECURSIVE and_(_, _)
and_(x, y) ==
  IF x = 0 \/ y = 0 THEN 0
  ELSE IF x = -1 THEN y
  ELSE IF y = -1 THEN x
  ELSE 2 * and_(x \div 2, y \div 2) + ((x % 2) * (y % 2))

RECURSIVE or_(_, _)
or_(x, y) ==
  IF x = 0 THEN y
  ELSE IF y = 0 THEN x
  ELSE IF x = -1 \/ y = -1 THEN -1
  ELSE 2 * or_(x \div 2, y \div 2) + (IF x % 2 = 1 \/ y % 2 = 1 THEN 1 ELSE 0)

---------------------------------------------------------------------------
(* The commands of instruction set 0 *)

NumSets == 4

\* cActivateSet without the check of the range: any Number selects a set
cActivateSet_NoRangeCheck(m) ==
  LET m1 == sf_pop(m) IN
  IF Raised(m1) THEN m1
  ELSE LET set == Top(m) IN
    IF ~IsNum(set) THEN CodeError(m1, "wrong type: expected number")
    ELSE [m1 EXCEPT !.activeset = int(set)]

cActivateSet(m) ==
  LET m1 == sf_pop(m) IN
  IF Raised(m1) THEN m1
  ELSE LET set == Top(m) IN
    IF ~IsNum(set) THEN CodeError(m1, "wrong type: expected number")
    ELSE IF NumSets <= int(set) \/ int(set) < 0
    THEN CodeError(m1, "no instruction set exists")
    ELSE [m1 EXCEPT !.activeset = int(set)]

activateSet1(m) == [m EXCEPT !.activeset = 1]
activateSet2(m) == [m EXCEPT !.activeset = 2]
activateSet3(m) == [m EXCEPT !.activeset = 3]

cGetSet(m) == sf_push(m, NUMT(m.activeset))

cNop(m) == m

---------------------------------------------------------------------------
(* The commands of instruction set 1 *)

cDuplicate(m) == sf(m, copy(m.stack, 0))

cAdd(m) == binstackf(m, LAMBDA x, a, b : Ret(x, add(a, b)),
                     "number", "number", TRUE)
cSub(m) == binstackf(m, LAMBDA x, a, b : Ret(x, sub(a, b)),
                     "number", "number", TRUE)
cMul(m) == binstackf(m, LAMBDA x, a, b : Ret(x, mul(a, b)),
                     "number", "number", TRUE)
cDiv(m) ==
  binstackf(m, LAMBDA x, a, b :
                 IF b.num = 0
                 THEN Ret(Raise(x, "ZeroDivisionError",
                                "float division by zero"), None)
                 ELSE Ret(x, div(a, b)),
            "number", "number", TRUE)

\* a conversion's result as the return value of a handler's function
OfConv(m, c, val) ==
  IF c.kind = "ok" THEN Ret(m, val)
  ELSE Ret(Raise(m, c.kind, ""), None)

cToStr(m) ==
  unarystackf(m, LAMBDA x, a : OfConv(x, v2str(a), STRT(v2str(a).val)),
              "number", TRUE)

\* tonum(s): float(s), or s when float(s) raises ValueError
tonum(m, s) ==
  LET c == StrToFloat(s.s) IN
  IF c.kind = "ValueError" THEN Ret(m, s) ELSE OfConv(m, c, c.val)

cToNum(m) == unarystackf(m, tonum, "string", TRUE)

cConcatenate(m) ==
  binstackf(m, LAMBDA x, a, b : Ret(x, STRT(a.s \o b.s)),
            "string", "string", TRUE)

\* World.out(string)
World_out(m, string) == [m EXCEPT !.out = @ \o string]

cOutput(m) ==
  unarystackf(m, LAMBDA x, a :
                   OfConv(World_out(x, v2str(a).val \o <<"\n">>),
                          v2str(a), None),
              "", FALSE)

cInlineOutput(m) ==
  unarystackf(m, LAMBDA x, a :
                   OfConv(World_out(x, v2str(a).val), v2str(a), None),
              "", FALSE)

\* World.readchar(): -1 at the end of the input
cReadChar(m) ==
  IF Len(m.stdin) = 0 THEN sf_push(m, NUMT(-1))
  ELSE sf_push([m EXCEPT !.stdin = Tail(@)], NUMT(Ord(Head(m.stdin))))

\* the length of the first line of the input, its newline included
LineLen(input) ==
  IF \E i \in 1..Len(input) : input[i] = "\n"
  THEN CHOOSE i \in 1..Len(input) :
         /\ input[i] = "\n"
         /\ \A j \in 1..(i - 1) : input[j] # "\n"
  ELSE Len(input)

\* World.readline()
cReadLine(m) ==
  LET k == LineLen(m.stdin) IN
  sf_push([m EXCEPT !.stdin = SubSeq(@, k + 1, Len(@))],
          STRT(SubSeq(m.stdin, 1, k)))

cSubstring(m) ==
  tristackf(m, LAMBDA x, strn, start, end :
                 Ret(x, STRT(PySlice(strn.s, int(start), int(end)))),
            "string", "number", "number", TRUE)

cStrLen(m) == unarystackf(m, LAMBDA x, a : Ret(x, NUMT(Len(a.s))),
                          "string", TRUE)

cDiscard(m) == sf_pop(m)

cCopy(m) ==
  unarystackf(m, LAMBDA x, n : StackCall(x, copy(x.stack, int(n))),
              "number", FALSE)

cMove(m) ==
  unarystackf(m, LAMBDA x, n : StackCall(x, move(x.stack, int(n))),
              "number", FALSE)

\* self.sf(self.stack.push, NUMT(len(self.stack))): func(*args) of a float
\* raises TypeError before push is called, and sf catches IndexError only
cStackSize(m) ==
  Raise(m, "TypeError", "argument after * must be a sequence, not float")

---------------------------------------------------------------------------
(* The commands of instruction set 2 *)

cGT(m) == binstackf(m, LAMBDA x, a, b : Ret(x, NUMT(Bool(gt(a, b)))),
                    "", "", TRUE)
cLT(m) == binstackf(m, LAMBDA x, a, b : Ret(x, NUMT(Bool(lt(a, b)))),
                    "", "", TRUE)

\* skip(n): self.ip += int(n)
cSkip(m) ==
  unarystackf(m, LAMBDA x, n : Ret([x EXCEPT !.ip = @ + int(n)], None),
              "number", FALSE)

\* a skip2 that truncates before it doubles: self.ip += int(n)*2
cSkipTwo_TruncFirst(m) ==
  unarystackf(m, LAMBDA x, n : Ret([x EXCEPT !.ip = @ + 2 * int(n)], None),
              "number", FALSE)

\* skip2(n): self.ip += int(n*2)
cSkipTwo(m) ==
  unarystackf(m, LAMBDA x, n :
                   Ret([x EXCEPT !.ip = @ + int(mul(n, NUMT(2)))], None),
              "number", FALSE)

\* insert(thing, where): self.stack.insert(where, thing)
cInsert(m) ==
  binstackf(m, LAMBDA x, thing, where :
                 StackCall(x, insert(x.stack, int(where), thing)),
            "", "number", FALSE)

\* NUMT(a and b and 1 or 0)
cAnd(m) ==
  binstackf(m, LAMBDA x, a, b : Ret(x, NUMT(Bool(Truthy(a) /\ Truthy(b)))),
            "", "", TRUE)

\* NUMT((a or b) and 1 or 0)
cOr(m) ==
  binstackf(m, LAMBDA x, a, b : Ret(x, NUMT(Bool(Truthy(a) \/ Truthy(b)))),
            "", "", TRUE)

\* NUMT(not a and 1 or 0)
cNot(m) ==
  unarystackf(m, LAMBDA x, a : Ret(x, NUMT(Bool(~Truthy(a)))), "", TRUE)

\* execstr(codestr): self.world.recurse(self, codestr), up to the call
execstr(m, codestr) ==
  Ret([m EXCEPT !.call = [on |-> TRUE, codestr |-> codestr.s]], None)

cExec(m) == unarystackf(m, execstr, "string", FALSE)

\* a cWhile that on a false test value pops the value below it as well
cWhile_PopsTwo(m) ==
  LET m1 == sf_pop(m) IN
  IF Raised(m1) THEN m1
  ELSE LET val == Top(m) IN
    IF Truthy(val)
    THEN LET m2 == sf_pop(m1) IN
         IF Raised(m2) THEN m2
         ELSE LET code == Top(m1) IN
           IF ~IsStr(code) THEN raiseTypeErr(m2, "string", code.t)
           ELSE execstr(m2, code).m
    ELSE sf_pop(m1)

\* One turn of the loop of cWhile, up to its execstr, its break or its
\* error; the loop goes on when the sub-interpreter has returned
cWhile(m) ==
  LET m1 == sf_pop(m) IN
  IF Raised(m1) THEN m1
  ELSE LET val == Top(m) IN
    IF Truthy(val)
    THEN LET m2 == sf_pop(m1) IN
         IF Raised(m2) THEN m2
         ELSE LET code == Top(m1) IN
           IF ~IsStr(code) THEN raiseTypeErr(m2, "string", code.t)
           ELSE execstr(m2, code).m
    ELSE m1

cEqual(m) == binstackf(m, LAMBDA x, a, b : Ret(x, NUMT(Bool(eq(a, b)))),
                       "", "", TRUE)

\* the largest shift and result the model computes: beyond them Python
\* makes a long, which push() does not widen to a float
MaxShift == 8

cLshift(m) ==
  binstackf(m, LAMBDA x, a, b :
                 IF int(b) < 0
                 THEN Ret(Raise(x, "ValueError", "negative shift count"), None)
                 ELSE IF int(b) > MaxShift
                 THEN Ret(Raise(x, "OutOfModel", ""), None)
                 ELSE Ret(x, NUMT(int(a) * Pow2(int(b)))),
            "number", "number", TRUE)

cRshift(m) ==
  binstackf(m, LAMBDA x, a, b :
                 IF int(b) < 0
                 THEN Ret(Raise(x, "ValueError", "negative shift count"), None)
                 ELSE IF int(b) > MaxShift
                 THEN Ret(Raise(x, "OutOfModel", ""), None)
                 ELSE Ret(x, NUMT(int(a) \div Pow2(int(b)))),
            "number", "number", TRUE)

---------------------------------------------------------------------------
(* The commands of instruction set 3 *)

\* World.quit(): sys.exit(0)
cQuit(m) == Raise(m, "SystemExit", "0")

\* One test of the loop of cRecallWhile over code, up to its execstr, its
\* end or its error
RecallLoop(m, code) ==
  LET m1 == sf_pop(m) IN
  IF Raised(m1) THEN m1
  ELSE IF Truthy(Top(m)) THEN execstr(m1, code).m
  ELSE m1

\* cRecallWhile up to the first execstr
cRecallWhile(m) ==
  LET m1 == sf_pop(m) IN
  IF Raised(m1) THEN m1
  ELSE LET code == Top(m) IN
    IF ~IsStr(code) THEN raiseTypeErr(m1, "string", code.t)
    ELSE RecallLoop(m1, code)

cIsNumber(m) ==
  unarystackf(m, LAMBDA x, v : Ret(x, NUMT(Bool(IsNum(v)))), "", TRUE)
cIsString(m) ==
  unarystackf(m, LAMBDA x, v : Ret(x, NUMT(Bool(IsStr(v)))), "", TRUE)

cBinAnd(m) ==
  binstackf(m, LAMBDA x, a, b : Ret(x, NUMT(and_(int(a), int(b)))),
            "number", "number", TRUE)
cBinOr(m) ==
  binstackf(m, LAMBDA x, a, b : Ret(x, NUMT(or_(int(a), int(b)))),
            "number", "number", TRUE)

cInteger(m) == unarystackf(m, LAMBDA x, a : Ret(x, NUMT(int(a))),
                           "number", TRUE)

cMod(m) ==
  binstackf(m, LAMBDA x, a, b :
                 IF b.num = 0
                 THEN Ret(Raise(x, "ZeroDivisionError", "float modulo"), None)
                 ELSE Ret(x, mod(a, b)),
            "number", "number", TRUE)

\* chr(int(k)%256)
cToChar(m) ==
  unarystackf(m, LAMBDA x, k :
                   IF HasChr(int(k) % 256)
                   THEN Ret(x, STRT(<<Chr(int(k) % 256)>>))
                   ELSE Ret(Raise(x, "OutOfModel", ""), None),
              "number", TRUE)

cCharAt(m) ==
  binstackf(m, LAMBDA x, strn, idx :
                 IF int(idx) < 0 \/ int(idx) >= Len(strn.s)
                 THEN Ret(CodeError(x, "index out of bounds"), None)
                 ELSE Ret(x, NUMT(Ord(strn.s[int(idx) + 1]))),
            "string", "number", TRUE)

\* strn[:idx] + repl[0] + strn[idx+1:]; repl[0] of "" is an IndexError
cReplaceChar(m) ==
  tristackf(m, LAMBDA x, strn, idx, repl :
                 IF int(idx) < 0 \/ int(idx) >= Len(strn.s)
                 THEN Ret(CodeError(x, "index out of bounds"), None)
                 ELSE IF Len(repl.s) = 0
                 THEN Ret(Raise(x, "IndexError", "string index out of range"),
                          None)
                 ELSE Ret(x, STRT(SubSeq(strn.s, 1, int(idx))
                                  \o <<repl.s[1]>>
                                  \o SubSeq(strn.s, int(idx) + 2, Len(strn.s)))),
            "string", "number", "string", TRUE)

cInvertedCopy(m) ==
  unarystackf(m, LAMBDA x, n : StackCall(x, invcopy(x.stack, int(n))),
              "number", FALSE)

cInvertedMove(m) ==
  unarystackf(m, LAMBDA x, n : StackCall(x, invmove(x.stack, int(n))),
              "number", FALSE)

cSwap(m)  == sf(m, swapn(m.stack, 1))
cSwap2(m) == sf(m, swapn(m.stack, 2))
cSwap3(m) == sf(m, swapn(m.stack, 3))

---------------------------------------------------------------------------
(* Interpreter.__init__: the four command sets, and Interpreter.step *)

Chars(cs) == {cs[i] : i \in 1..Len(cs)}

\* the keys of self.sets[0..3]
sets ==
  <<Chars(<<"e", "f", "g", "x", "j", "z">>),
    Chars(<<"u", "a", "s", "m", "d", "t", "i", "c", "o", "q", "n", "l",
            "h", "y", "v", "p", "k", "r">>),
    Chars(<<"u", "d", "s", "t", "p", "a", "o", "n", "c", "w", "q", "l",
            "r">>),
    Chars(<<"q", "w", "n", "s", "a", "o", "i", "m", "t", "c", "r", "p",
            "k", "b", "d", "h">>)>>

\* self.sets[0][c]()
set0(m, c) ==
  CASE c = "e" -> activateSet1(m)
    [] c = "f" -> activateSet2(m)
    [] c = "g" -> activateSet3(m)
    [] c = "x" -> cActivateSet(m)
    [] c = "j" -> cGetSet(m)
    [] c = "z" -> cNop(m)

\* self.sets[1][c]()
set1(m, c) ==
  CASE c = "u" -> cDuplicate(m)
    [] c = "a" -> cAdd(m)
    [] c = "s" -> cSub(m)
    [] c = "m" -> cMul(m)
    [] c = "d" -> cDiv(m)
    [] c = "t" -> cToStr(m)
    [] c = "i" -> cToNum(m)
    [] c = "c" -> cConcatenate(m)
    [] c = "o" -> cOutput(m)
    [] c = "q" -> cInlineOutput(m)
    [] c = "n" -> cReadChar(m)
    [] c = "l" -> cReadLine(m)
    [] c = "h" -> cSubstring(m)
    [] c = "y" -> cStrLen(m)
    [] c = "v" -> cDiscard(m)
    [] c = "p" -> cCopy(m)
    [] c = "k" -> cMove(m)
    [] c = "r" -> cStackSize(m)

\* self.sets[2][c]()
set2(m, c) ==
  CASE c = "u" -> cGT(m)
    [] c = "d" -> cLT(m)
    [] c = "s" -> cSkip(m)
    [] c = "t" -> cSkipTwo(m)
    [] c = "p" -> cInsert(m)
    [] c = "a" -> cAnd(m)
    [] c = "o" -> cOr(m)
    [] c = "n" -> cNot(m)
    [] c = "c" -> cExec(m)
    [] c = "w" -> cWhile(m)
    [] c = "q" -> cEqual(m)
    [] c = "l" -> cLshift(m)
    [] c = "r" -> cRshift(m)

\* self.sets[3][c]()
set3(m, c) ==
  CASE c = "q" -> cQuit(m)
    [] c = "w" -> cRecallWhile(m)
    [] c = "n" -> cIsNumber(m)
    [] c = "s" -> cIsString(m)
    [] c = "a" -> cBinAnd(m)
    [] c = "o" -> cBinOr(m)
    [] c = "i" -> cInteger(m)
    [] c = "m" -> cMod(m)
    [] c = "t" -> cToChar(m)
    [] c = "c" -> cCharAt(m)
    [] c = "r" -> cReplaceChar(m)
    [] c = "p" -> cInvertedCopy(m)
    [] c = "k" -> cInvertedMove(m)
    [] c = "b" -> cSwap(m)
    [] c = "d" -> cSwap2(m)
    [] c = "h" -> cSwap3(m)

\* self.sets[self.activeset][c](), with the ZeroDivisionError of the
\* handler turned into a CodeError
ExceptZeroDivision(r) ==
  IF r.exc.type = "ZeroDivisionError"
  THEN CodeError(r, "division by zero")
  ELSE r

RunSelected(m, c) ==
  ExceptZeroDivision(CASE m.activeset = 1 -> set1(m, c)
                       [] m.activeset = 2 -> set2(m, c)
                       [] m.activeset = 3 -> set3(m, c))

\* step() without the priority of set 0: a command is looked up in the
\* active set alone
step_ActiveSetOnly(m) ==
  IF ~PyIndexOK(m.code, m.ip)
  THEN Raise(m, "IndexError", "list index out of range")
  ELSE LET curitem == PyGet(m.code, m.ip) IN
    IF curitem.type = "CONSTANT" THEN sf_push(m, curitem.value)
    ELSE LET c == curitem.value.s[1] IN
      IF c \notin sets[m.activeset + 1]
      THEN CodeError(m, "set has no command")
      ELSE IF m.activeset = 0 THEN set0(m, c)
      ELSE RunSelected(m, c)

\* The body of step() for self.ip < len(self.code), up to "self.ip += 1":
\* the machine after the handler has returned, raised, or called recurse
step(m) ==
  IF ~PyIndexOK(m.code, m.ip)
  THEN Raise(m, "IndexError", "list index out of range")
  ELSE LET curitem == PyGet(m.code, m.ip) IN
    IF curitem.type = "CONSTANT" THEN sf_push(m, curitem.value)
    ELSE LET c == curitem.value.s[1] IN
      IF c \in sets[1] THEN set0(m, c)
      ELSE IF m.activeset < 0 \/ m.activeset >= Len(sets)
      THEN CodeError(m, "no such set")
      ELSE IF c \notin sets[m.activeset + 1]
      THEN CodeError(m, "set has no command")
      ELSE RunSelected(m, c)

\* the handler that called recurse from step(): where the interpreter waits
Waiting(m) ==
  LET c == PyGet(m.code, m.ip).value.s[1] IN
  IF m.activeset = 3 THEN "cRecallWhile"
  ELSE IF c = "w" THEN "cWhile"
  ELSE "cExec"

---------------------------------------------------------------------------
(* class World and main *)

\* the bounds of the model: a step that would pass one is not taken
MaxFrames   == 3
MaxStackLen == 6
MaxOutLen   == 10
MaxStrLen   == 12
MaxAbs      == 200

ValueInBounds(v) ==
  /\ Abs(v.num) <= MaxAbs
  /\ v.den <= MaxAbs
  /\ Len(v.s) <= MaxStrLen

InBounds(m) ==
  /\ m.exc.type # "OutOfModel"
  /\ Len(m.stack) <= MaxStackLen
  /\ Len(m.out) <= MaxOutLen
  /\ \A i \in 1..Len(m.stack) : ValueInBounds(m.stack[i])
  /\ m.ip >= -MaxAbs /\ m.ip <= MaxAbs

\* Interpreter(world, code, stack, ip=0, activeset): an interpreter, with
\* the handler it waits in while a sub-interpreter runs ("step": none) and
\* the code cRecallWhile popped
Interpreter(code, activeset) ==
  [code |-> code, ip |-> 0, activeset |-> activeset, mode |-> "step",
   wcode |-> <<>>]

\* the machine of an interpreter
Machine(fr) ==
  [code |-> fr.code, ip |-> fr.ip, activeset |-> fr.activeset,
   stack |-> stack, out |-> out, stdin |-> stdin,
   exc |-> NoExc, call |-> NoCall]

\* recurse with "except:" in the place of "except Exception": SystemExit is
\* caught with the rest
recurse_except_BareExcept(e, ip) ==
  LET wrap(msg) == [type |-> "CodeError", msg |-> msg, ip |-> ip,
                    cause |-> <<e.msg>> \o e.cause,
                    position |-> e.position]
  IN  IF e.type = "ValueError" THEN wrap("exec: parsing of string failed")
      ELSE IF e.type = "CodeError"
      THEN wrap("exec: sub-interpreter runtime error")
      ELSE wrap("exec: sub-interpreter failed")

\* The except clauses of World.recurse, prevint being at ip: SystemExit is
\* no Exception and passes
recurse_except(e, ip) ==
  LET wrap(msg) == [type |-> "CodeError", msg |-> msg, ip |-> ip,
                    cause |-> <<e.msg>> \o e.cause,
                    position |-> e.position]
  IN  IF e.type = "ValueError" THEN wrap("exec: parsing of string failed")
      ELSE IF e.type = "CodeError"
      THEN wrap("exec: sub-interpreter runtime error")
      ELSE IF e.type = "SystemExit" THEN e
      ELSE wrap("exec: sub-interpreter failed")

\* World(codestr, prevint) that forgets activeset=prevint.activeset
World_init_DefaultSet(items, prevint) == Interpreter(items, 0)

\* World(codestr, prevint): the sub-interpreter, with the stack and the
\* active set of prevint
World_init(items, prevint) == Interpreter(items, prevint.activeset)

\* step() without "self.ip += 1": the interpreter stays at the item it has
\* executed
Settle_NoIncrement(below, fr, m, mode) ==
  LET fr1 == [fr EXCEPT !.ip = m.ip, !.activeset = m.activeset]
      p   == parse(m.call.codestr)
  IN
  /\ InBounds(m)
  /\ stack' = m.stack
  /\ out' = m.out
  /\ stdin' = m.stdin
  /\ UNCHANGED <<source, report>>
  /\ IF Raised(m)
     THEN /\ frames' = Append(below, [fr1 EXCEPT !.mode = "step"])
          /\ exc' = m.exc
          /\ pc' = "raise"
     ELSE IF m.call.on /\ ~p.ok
     THEN /\ frames' = Append(below, [fr1 EXCEPT !.mode = "step"])
          /\ exc' = recurse_except(ValueError(p.err), m.ip)
          /\ pc' = "raise"
     ELSE IF m.call.on
     THEN /\ Len(below) + 2 <= MaxFrames
          /\ frames' = below \o
                <<[fr1 EXCEPT !.mode = mode,
                              !.wcode = IF mode = "cRecallWhile"
                                        THEN m.call.codestr ELSE <<>>],
                  World_init(p.items, fr1)>>
          /\ exc' = NoExc
          /\ pc' = "run"
     ELSE /\ frames' = Append(below, [fr1 EXCEPT !.mode = "step",
                                                 !.wcode = <<>>])
          /\ exc' = NoExc
          /\ pc' = "run"

\* The interpreter fr after its handler left machine m: the step is over
\* (ip += 1), or it raised, or it called World.recurse, which parses the
\* string and starts the sub-interpreter
Settle(below, fr, m, mode) ==
  LET fr1 == [fr EXCEPT !.ip = m.ip, !.activeset = m.activeset]
      p   == parse(m.call.codestr)
  IN
  /\ InBounds(m)
  /\ stack' = m.stack
  /\ out' = m.out
  /\ stdin' = m.stdin
  /\ UNCHANGED <<source, report>>
  /\ IF Raised(m)
     THEN /\ frames' = Append(below, [fr1 EXCEPT !.mode = "step"])
          /\ exc' = m.exc
          /\ pc' = "raise"
     ELSE IF m.call.on /\ ~p.ok
     THEN /\ frames' = Append(below, [fr1 EXCEPT !.mode = "step"])
          /\ exc' = recurse_except(ValueError(p.err), m.ip)
          /\ pc' = "raise"
     ELSE IF m.call.on
     THEN /\ Len(below) + 2 <= MaxFrames
          /\ frames' = below \o
                <<[fr1 EXCEPT !.mode = mode,
                              !.wcode = IF mode = "cRecallWhile"
                                        THEN m.call.codestr ELSE <<>>],
                  World_init(p.items, fr1)>>
          /\ exc' = NoExc
          /\ pc' = "run"
     ELSE /\ frames' = Append(below, [fr1 EXCEPT !.ip = m.ip + 1,
                                                 !.mode = "step",
                                                 !.wcode = <<>>])
          /\ exc' = NoExc
          /\ pc' = "run"

Running == frames[Len(frames)]
Below   == SubSeq(frames, 1, Len(frames) - 1)

\* main: w = World(code)
Main ==
  /\ pc = "main"
  /\ \E p \in {parse(source)} :
     IF p.ok
     THEN /\ frames' = <<Interpreter(p.items, 0)>>
          /\ exc' = NoExc
          /\ pc' = "run"
     ELSE /\ frames' = <<>>
          /\ exc' = ValueError(p.err)
          /\ pc' = "raise"
  /\ UNCHANGED <<source, stack, out, stdin, report>>

\* the running interpreter after step() has left machine m (m is evaluated
\* once)
SettleStep(m) ==
  \E v \in {m} :
    Settle(Below, Running, v, IF v.call.on THEN Waiting(v) ELSE "step")

\* one turn of "while self.interpreter.step(): pass" that runs an item
Step ==
  /\ pc = "run"
  /\ Running.ip < Len(Running.code)
  /\ \E m \in {Machine(Running)} : SettleStep(step(m))

\* step() returns False in the top-level interpreter: main is over
RunDone ==
  /\ pc = "run"
  /\ Len(frames) = 1
  /\ Running.ip >= Len(Running.code)
  /\ pc' = "exit"
  /\ UNCHANGED <<source, frames, stack, out, stdin, exc, report>>

\* a return from recurse with the active set shared, not inherited: the
\* interpreter below goes on under the set its sub-interpreter ended with
RecurseReturn_SharedSet ==
  /\ pc = "run"
  /\ Len(frames) > 1
  /\ Running.ip >= Len(Running.code)
  /\ LET prevint == [frames[Len(frames) - 1] EXCEPT
                       !.activeset = Running.activeset]
         m0      == Machine(prevint)
         m       == CASE prevint.mode = "cExec" -> m0
                      [] prevint.mode = "cWhile" -> cWhile(m0)
                      [] prevint.mode = "cRecallWhile" ->
                           RecallLoop(m0, STRT(prevint.wcode))
     IN  \E v \in {m} :
           Settle(SubSeq(frames, 1, Len(frames) - 2), prevint, v,
                  prevint.mode)

\* step() returns False in a sub-interpreter: w.run() and recurse return,
\* and the handler of the interpreter below goes on
RecurseReturn ==
  /\ pc = "run"
  /\ Len(frames) > 1
  /\ Running.ip >= Len(Running.code)
  /\ LET prevint == frames[Len(frames) - 1]
         m0      == Machine(prevint)
         m       == CASE prevint.mode = "cExec" -> m0
                      [] prevint.mode = "cWhile" -> cWhile(m0)
                      [] prevint.mode = "cRecallWhile" ->
                           RecallLoop(m0, STRT(prevint.wcode))
     IN  \E v \in {m} :
           Settle(SubSeq(frames, 1, Len(frames) - 2), prevint, v,
                  prevint.mode)

\* a recurse that swallows the exception of the sub-interpreter: the
\* interpreter below goes on with its next item
RecurseExcept_Resume ==
  /\ pc = "raise"
  /\ Len(frames) > 1
  /\ frames' = SubSeq(frames, 1, Len(frames) - 2)
                 \o <<[frames[Len(frames) - 1] EXCEPT
                         !.mode = "step", !.ip = @ + 1]>>
  /\ exc' = NoExc
  /\ pc' = "run"
  /\ UNCHANGED <<source, stack, out, stdin, report>>

\* an exception leaves a sub-interpreter through World.recurse
RecurseExcept ==
  /\ pc = "raise"
  /\ Len(frames) > 1
  /\ frames' = SubSeq(frames, 1, Len(frames) - 2)
                 \o <<[frames[Len(frames) - 1] EXCEPT !.mode = "step"]>>
  /\ exc' = recurse_except(exc, frames[Len(frames) - 1].ip)
  /\ UNCHANGED <<pc, source, stack, out, stdin, report>>

\* the except clauses of main; SystemExit ends the process without a word
MainExcept ==
  /\ pc = "raise"
  /\ Len(frames) <= 1
  /\ report' = CASE exc.type = "CodeError"  -> "Run-time error"
                 [] exc.type = "ValueError" -> "Parse error"
                 [] exc.type = "SystemExit" -> ""
                 [] OTHER -> "An exception occured"
  /\ pc' = "exit"
  /\ UNCHANGED <<source, frames, stack, out, stdin, exc>>

---------------------------------------------------------------------------
(* The programs and inputs of the model *)

\* the concatenations of at most n of the tokens T
RECURSIVE Concats(_, _)
Concats(T, n) ==
  IF n = 0 THEN {<<>>}
  ELSE LET r == Concats(T, n - 1) IN r \cup {x \o t : x \in r, t \in T}

\* the most constants a generated program pushes before its last command
MaxPush == 3

\* constants on the stack: two numbers and a string
StackTokens == {<<"7">>, <<"8">>, <<"[", "a", "]">>}

\* operands: false and true numbers and strings
OperandTokens == {<<"0">>, <<"7">>, <<"[", "]">>, <<"[", "a", "]">>}

\* indexes, computed under set 1: 0, 1, 2, 3, -1, -2, -3, 0.5, 1.5, -0.5,
\* -1.5 and a string
IndexTokens ==
  {<<"0">>, <<"1">>, <<"2">>, <<"3">>,
   <<"0", "1", "s">>, <<"0", "2", "s">>, <<"0", "3", "s">>,
   <<"1", "2", "d">>, <<"3", "2", "d">>,
   <<"0", "1", "2", "d", "s">>, <<"0", "3", "2", "d", "s">>,
   <<"[", "a", "]">>}

\* the commands that take an index, each after the command that selects its set
IndexCommands ==
  {<<"e", "p">>, <<"e", "k">>, <<"f", "p">>, <<"g", "p">>, <<"g", "k">>,
   <<"x", "j">>, <<"f", "s", "z", "7">>, <<"f", "t", "z", "7">>}

\* every command of every set, after the command that selects the set
AllCommands ==
  {<<c>> : c \in {"e", "f", "g", "x", "j", "z"}}
  \cup {<<"e", c>> : c \in {"u", "a", "s", "m", "d", "t", "i", "c", "o", "q",
                            "n", "l", "h", "y", "v", "p", "k", "r"}}
  \cup {<<"f", c>> : c \in {"u", "d", "s", "t", "p", "a", "o", "n", "c", "w",
                            "q", "l", "r"}}
  \cup {<<"g", c>> : c \in {"q", "w", "n", "s", "a", "o", "i", "m", "t", "c",
                            "r", "p", "k", "b", "d", "h"}}
  \cup {<<c>> : c \in {"u", "w", "b"}}

\* skips forward and backward from several places of a program
SkipPrograms ==
  {<<"e">> \o a \o i \o <<"f", c>> \o b :
     a \in Concats({<<"z">>}, 2), b \in Concats({<<"7">>}, 2),
     c \in {"s", "t"},
     i \in {<<"0">>, <<"1">>, <<"2">>, <<"1", "2", "d">>,
            <<"0", "1", "s">>, <<"0", "2", "s">>, <<"0", "5", "s">>,
            <<"0", "9", "s">>, <<"0", "9", "s", "9", "s">>}}

Curated ==
    {
     \* scenario 6 of the specification
     <<"e", "[", "c", "o", "d", "e", ":", " ", "]", "q", " ", "f", "[", "1", " ", "1", " ", "a", "]", "c", " ", "e", " ", "o">>,
     \* the other scenarios
     <<"e", "1", " ", "1", " ", "a", " ", "o">>,
     <<"e", "[", "h", "e", "l", "l", "o", "]", " ", "o">>,
     <<"e", " ", "5", " ", "2", " ", "s", " ", "o">>,
     <<"e", " ", "4", " ", "2", " ", "d", " ", "o">>,
     <<"e", " ", "4", " ", "0", " ", "d">>,
     <<"e", "[", "a", "b", "c", "]", " ", "y", " ", "o">>,
     \* a sub-interpreter changes its active set
     <<"f", "[", "e", "]", "c", "j">>,
     <<"f", "[", "g", "[", "e", "]", "c", "j", "]", "c", "j">>,
     <<"f", "3", "[", "x", "]", "c", "j">>,
     <<"f", "7", "[", "x", "]", "c", "j">>,
     <<"f", "[", "0", "1", "t", "7", "]", "c", "j">>,
     \* quit in a sub-interpreter
     <<"f", "[", "g", "q", "]", "c", "e", "7", "o">>,
     <<"f", "[", "e", "8", "o", "[", "g", "q", "]", "f", "c", "e", "8", "o", "]", "c", "e", "7", "o">>,
     <<"f", "0", "[", "g", "q", "]", "1", "w", "e", "7", "o">>,
     <<"g", "1", "[", "e", "8", "o", "g", "q", "]", "w", "e", "7", "o">>,
     <<"g", "q", "e", "7", "o">>,
     \* while and recall-while
     <<"f", "0", "[", "e", "7", "o", "]", "1", "w", "e", "8", "o">>,
     <<"f", "0", "[", "e", "7", "o", "]", "1", "[", "e", "8", "o", "]", "1", "w">>,
     <<"g", "0", "1", "[", "e", "7", "o", "]", "w", "j">>,
     <<"g", "0", "1", "1", "[", "e", "7", "o", "]", "w", "j">>,
     <<"f", "0", "[", "e", "7", "o", "]", "[", "]", "w">>,
     <<"g", "0", "[", "]", "[", "e", "7", "o", "]", "w">>,
     <<"f", "[", "e", "7", "o", "]", "1", "w">>,
     <<"f", "7", "1", "w">>,
     <<"g", "7", "w">>,
     <<"f", "[", "1", "[", "f", "1", "]", "]", "c", "[", "1", "[", "f", "1", "]", "]", "w">>,
     \* errors of a sub-interpreter
     <<"f", "[", "e", "v", "]", "c", "e", "7", "o">>,
     <<"f", "[", "e", "7", "o", "[", "e", "v", "]", "f", "c", "e", "8", "o", "]", "c", "e", "9", "o">>,
     <<"e", "[", "[", "]", "]", "0", "1", "h", "f", "c">>,
     <<"f", "[", "e", "1", "0", "1", "s", "f", "l", "]", "c">>,
     <<"f", "[", "e", "0", "p", "]", "c">>,
     <<"f", "[", "e", "r", "]", "c">>,
     <<"f", "[", "e", "1", "0", "d", "]", "c">>,
     <<"f", "[", "y", "]", "c">>,
     \* commands no set has, and commands the active set has not
     <<"7", "u">>,
     <<"f", "7", "b">>,
     <<"g", "7", "y", "7">>,
     \* numbers that are no integers, written and turned into strings
     <<"e", "1", "2", "d", "q">>,
     <<"e", "0", "5", "2", "d", "s", "t">>,
     \* a string that does not end
     <<"e", "[", "a", "b">>,
     <<"[">>,
     <<"7", "[", "a", "]", "e", "[", "b", "[", "c", "]">>,
     <<"e", "[", "a", "[", "b", "]", "c">>,
     <<"e", "[", "[", "a", "]", "]", "0", "2", "h", "f", "c">>,
     <<"e", "7", "]", "[", "a">>,
     \* input
     <<"e", "n", "o", "l", "o", "n", "o">>,
     \* conversions
     <<"e", "[", "1", "2", "]", "o", "[", " ", "1", "2", "]", "o">>,
     <<"e", "[", "1", ".", "5", "0", "]", "o", "[", "-", "7", "]", "i", "2", "a", "o">>,
     <<"e", "1", "2", "d", "t", "o", "5", "2", "d", "o">>,
     <<"e", "[", "1", ".", "5", "]", "i", "[", "x", "]", "i", "[", "+", "3", "]", "i">>
    }

\* the longest text of a generated string constant
MaxTextLen == 4

\* the depth of brackets after text s entered at depth d; -1 once a "]"
\* has closed more than was open
RECURSIVE DepthAfter(_, _)
DepthAfter(s, d) ==
  IF d < 0 THEN -1
  ELSE IF Len(s) = 0 THEN d
  ELSE DepthAfter(Tail(s), IF Head(s) = "[" THEN d + 1
                           ELSE IF Head(s) = "]" THEN d - 1
                           ELSE d)

\* s has balanced brackets and at least one group
Groups(s) == DepthAfter(s, 0) = 0 /\ \E i \in 1..Len(s) : s[i] = "["

\* texts with groups in them
BracketTexts ==
  {x \in Concats({<<"a">>, <<"1">>, <<" ">>, <<"\n">>, <<"[">>, <<"]">>},
                 MaxTextLen) : Groups(x)}

\* a string constant alone, and one written by q under set 1
BracketPrograms ==
  {<<"[">> \o x \o <<"]">> : x \in BracketTexts}
  \cup {<<"e", "[">> \o x \o <<"]", "q">> : x \in BracketTexts}

\* the longest generated program without brackets
MaxPlainLen == 3

\* programs without brackets: digits, whitespace and commands
PlainPrograms ==
  Concats({<<"e">>, <<"z">>, <<"u">>, <<"0">>, <<"7">>,
           <<" ">>, <<"\n">>, <<"\t">>}, MaxPlainLen)

Reading == {<<"e", "n", "o", "l", "o", "n", "o">>, <<"e", "l", "o", "n", "o", "e", "n", "o">>}

Inputs == {<<>>, <<"h", "i", "\n", "x">>, <<"\n">>}

Sources ==
  Curated
  \cup SkipPrograms
  \cup BracketPrograms
  \cup PlainPrograms
  \cup {<<"e">> \o p \o i \o c :
          p \in Concats(StackTokens, MaxPush), i \in IndexTokens,
          c \in IndexCommands}
  \cup {<<"e">> \o p \o c :
          p \in Concats(OperandTokens, MaxPush), c \in AllCommands}

Init ==
  /\ pc = "main"
  /\ \/ source \in Sources /\ stdin = <<>>
     \/ source \in Reading /\ stdin \in Inputs
  /\ frames = <<>>
  /\ stack = <<>>
  /\ out = <<>>
  /\ exc = NoExc
  /\ report = ""

Next ==
  \/ Main
  \/ Step
  \/ RunDone
  \/ RecurseReturn
  \/ RecurseExcept
  \/ MainExcept

Spec == Init /\ [][Next]_vars

\* The programs followed to their end under fairness: those of Sources,
\* the computed ones with one operand less
FairSources ==
  Curated
  \cup SkipPrograms
  \cup BracketPrograms
  \cup PlainPrograms
  \cup {<<"e">> \o p \o i \o c :
          p \in Concats(StackTokens, MaxPush - 1), i \in IndexTokens,
          c \in IndexCommands}
  \cup {<<"e">> \o p \o c :
          p \in Concats(OperandTokens, MaxPush - 1), c \in AllCommands}

FairInit ==
  /\ pc = "main"
  /\ \/ source \in FairSources /\ stdin = <<>>
     \/ source \in Reading /\ stdin \in Inputs
  /\ frames = <<>>
  /\ stack = <<>>
  /\ out = <<>>
  /\ exc = NoExc
  /\ report = ""

\* The program under its driver: main and "while self.interpreter.step():
\* pass" are one sequential thread that nothing suspends, so a step that
\* can be taken is taken
FairSpec == FairInit /\ [][Next]_vars /\ WF_vars(Next)

---------------------------------------------------------------------------
(* What the claims are stated with *)

\* the item the running interpreter is about to fetch
CurItem == PyGet(Running.code, Running.ip)

\* the running interpreter is about to execute command ch under set k
At(ch, k) ==
  /\ pc = "run"
  /\ Len(frames) > 0
  /\ Running.ip < Len(Running.code)
  /\ PyIndexOK(Running.code, Running.ip)
  /\ CurItem.type = "COMMAND"
  /\ CurItem.value.s = <<ch>>
  /\ Running.activeset = k

\* the top of the stack and what is below it
TopValue == stack[Len(stack)]
Rest     == SubSeq(stack, 1, Len(stack) - 1)

\* the running interpreter is about to execute ch under set k with a Number
\* on top of the stack
AtWithNumber(ch, k) == At(ch, k) /\ Len(stack) > 0 /\ IsNum(TopValue)

\* the step now taken fails with the program error "stack error", made by
\* err() of the running interpreter
FailsWithStackError ==
  /\ pc' = "raise"
  /\ exc'.type = "CodeError"
  /\ exc'.msg = "stack error"
  /\ exc'.ip = Running.ip

---------------------------------------------------------------------------
(* C1 *)

---------------------------------------------------------------------------
(* C2 *)

Scenario6 ==
  <<"e", "[", "c", "o", "d", "e", ":", " ", "]", "q", " ", "f", "[", "1",
    " ", "1", " ", "a", "]", "c", " ", "e", " ", "o">>

\* C2 as the specification states it: the whole output of scenario 6 is
\* "code: 2" and a newline, and the program ends without an error.
C2_Original ==
  (source = Scenario6 /\ pc = "exit") =>
    /\ out = <<"c", "o", "d", "e", ":", " ", "2", "\n">>
    /\ exc = NoExc

\* C2 amended: scenario 6 ends without an error and its whole output is
\* "code: 1" and a newline; the exec'd string runs under the inherited set
\* 2, whose a is the logical and, and leaves the Number 1.
C2_Scenario6 ==
  /\ (source = Scenario6 /\ pc = "exit") =>
       /\ out = <<"c", "o", "d", "e", ":", " ", "1", "\n">>
       /\ exc = NoExc
       /\ report = ""
       /\ stack = <<>>
  /\ (source = Scenario6 /\ pc # "exit") => exc = NoExc
  /\ (source = Scenario6 /\ Len(frames) = 2 /\ Running.ip = 3) =>
       stack = <<NUMT(1)>>

C2_Witness == source = Scenario6 /\ pc = "exit"

---------------------------------------------------------------------------
(* C3 *)

\* C3: q under set 3 raises the SystemExit of sys.exit(0) whatever the depth
\* of the interpreter, and from then on no interpreter moves its ip, the
\* stack and the output stay as they are, the exception stays the
\* SystemExit (no exec error is made of it) and main reports nothing.
C3_QuitEndsProgram ==
  [][/\ At("q", 3) => (pc' = "raise" /\ exc'.type = "SystemExit")
     /\ exc.type = "SystemExit" =>
          /\ exc' = exc
          /\ out' = out
          /\ stack' = stack
          /\ report' = ""
          /\ pc' \in {"raise", "exit"}
          /\ Len(frames') <= Len(frames)
          /\ \A i \in 1..Len(frames') :
               /\ frames'[i].ip = frames[i].ip
               /\ frames'[i].activeset = frames[i].activeset]_vars

\* q has just raised in a sub-interpreter of a sub-interpreter
C3_Witness ==
  /\ pc = "raise"
  /\ exc.type = "SystemExit"
  /\ Len(frames) = 3

---------------------------------------------------------------------------
(* C4 *)

\* the stack stk with the element n below its top lifted to the top
Lifted(stk, n) ==
  LET j == Len(stk) - n
  IN  SubSeq(stk, 1, j - 1) \o SubSeq(stk, j + 1, Len(stk)) \o <<stk[j]>>

\* C4 as the specification states it: k under set 1, having popped n with
\* 0 <= n < L, leaves the depth at L and lifts the element n below the top
\* to the top, the other elements keeping their order.
C4_Original ==
  [][(AtWithNumber("k", 1) /\ 0 <= int(TopValue) /\ int(TopValue) < Len(Rest))
       => (pc' = "run" /\ stack' = Lifted(Rest, int(TopValue)))]_vars

---------------------------------------------------------------------------
(* C5 *)

\* the truth value of the specification: false is the Number 0 alone
SpecTruthy(v) == ~(IsNum(v) /\ v.num = 0)

\* the two values under the running command, and the stack below them
Second == stack[Len(stack) - 1]
Rest2  == SubSeq(stack, 1, Len(stack) - 2)

\* the running interpreter can start the sub-interpreter of code
CanExec(code) ==
  IsStr(code) /\ parse(code.s).ok /\ Len(frames) < MaxFrames

\* C5 as the specification states it: for n, a, o of set 2 and the tests of
\* the two whiles a value is false exactly when it is the Number 0, so that
\* every String, the empty one too, is true.
C5_Original ==
  [][/\ (At("n", 2) /\ Len(stack) >= 1)
          => stack' = Append(Rest, NUMT(Bool(~SpecTruthy(TopValue))))
     /\ (At("a", 2) /\ Len(stack) >= 2)
          => stack' = Append(Rest2, NUMT(Bool(SpecTruthy(Second)
                                              /\ SpecTruthy(TopValue))))
     /\ (At("o", 2) /\ Len(stack) >= 2)
          => stack' = Append(Rest2, NUMT(Bool(SpecTruthy(Second)
                                              \/ SpecTruthy(TopValue))))
     /\ (At("w", 2) /\ Len(stack) >= 2 /\ SpecTruthy(TopValue)
           /\ CanExec(Second))
          => (pc' = "run" /\ Len(frames') = Len(frames) + 1)
     /\ (At("w", 3) /\ Len(stack) >= 2 /\ SpecTruthy(Second)
           /\ CanExec(TopValue))
          => (pc' = "run" /\ Len(frames') = Len(frames) + 1)]_vars

---------------------------------------------------------------------------
(* C6 *)

\* the running command is one of copy-n, move-n, inverted-copy and
\* inverted-move, with a Number on top of the stack
AtIndexed ==
  \/ AtWithNumber("p", 1) \/ AtWithNumber("k", 1)
  \/ AtWithNumber("p", 3) \/ AtWithNumber("k", 3)

\* C6 as the specification states it: an index at or beyond the remaining
\* depth makes the step fail with the program error "stack error", with the
\* ip of the interpreter, as a pop from the empty stack does.
C6_Original ==
  [][(AtIndexed /\ int(TopValue) >= Len(Rest)) => FailsWithStackError]_vars

---------------------------------------------------------------------------
(* C7 *)

\* C7 as the specification states it: on a non-empty stack an index whose
\* truncation is negative makes the four commands fail, and no element is
\* read, duplicated or deleted by wrapping the index around.
C7_Original ==
  [][(AtIndexed /\ int(TopValue) < 0 /\ Len(Rest) > 0)
       => (pc' = "raise" /\ stack' = Rest)]_vars

---------------------------------------------------------------------------
(* C8 *)

\* C8 as the specification states it: insert (p under set 2) with an index
\* that is negative or at or beyond the remaining depth fails with a stack
\* error and the thing is put nowhere in the stack.
C8_Original ==
  [][(AtWithNumber("p", 2) /\ Len(stack) >= 2
        /\ (int(TopValue) < 0 \/ int(TopValue) >= Len(Rest2)))
       => (FailsWithStackError /\ stack' = Rest2)]_vars

---------------------------------------------------------------------------
(* C9 *)

\* C9 as the specification states it: r under set 1 raises no error on any
\* stack and pushes the depth the stack had.
C9_Original ==
  [][At("r", 1)
       => (pc' = "run" /\ exc' = NoExc
           /\ stack' = Append(stack, NUMT(Len(stack))))]_vars

---------------------------------------------------------------------------
(* C10 *)

\* C10 as the specification states it: the ip of every interpreter is never
\* negative.
C10_Original == \A i \in 1..Len(frames) : frames[i].ip >= 0

---------------------------------------------------------------------------
(* C11 *)

\* C11 as the specification states it: the error of a sub-interpreter that
\* is running, so whose string was parsed, reaches the interpreter below as
\* "exec: sub-interpreter runtime error", and "exec: parsing of string
\* failed" is the error exactly of a string that failed to parse.
C11_Original ==
  [][/\ (pc = "raise" /\ Len(frames) > 1 /\ exc.type # "SystemExit")
          => (exc'.type = "CodeError"
              /\ exc'.msg = "exec: sub-interpreter runtime error")
     /\ (At("c", 2) /\ Len(stack) > 0 /\ IsStr(TopValue)
           /\ ~parse(TopValue.s).ok)
          => (pc' = "raise" /\ exc'.type = "CodeError"
              /\ exc'.msg = "exec: parsing of string failed")]_vars

---------------------------------------------------------------------------
(* C13 *)

\* the index (from 1) of the "]" that closes a string entered at depth lvl,
\* looked for from index i on; 0 when there is none
RECURSIVE ClosingOf(_, _, _)
ClosingOf(s, i, lvl) ==
  IF i > Len(s) THEN 0
  ELSE IF s[i] = "]"
  THEN IF lvl = 1 THEN i ELSE ClosingOf(s, i + 1, lvl - 1)
  ELSE IF s[i] = "[" THEN ClosingOf(s, i + 1, lvl + 1)
  ELSE ClosingOf(s, i + 1, lvl)

\* the position (from 0) of the first "[" that begins a string constant of s
\* and has no matching "]", looked for from index i (from 1) on; -1 when
\* there is none before the end of s or before a "]" without "["
RECURSIVE UnterminatedAt(_, _)
UnterminatedAt(s, i) ==
  IF i > Len(s) THEN -1
  ELSE IF s[i] = "]" THEN -1
  ELSE IF s[i] = "["
  THEN IF ClosingOf(s, i + 1, 1) = 0 THEN i - 1
       ELSE UnterminatedAt(s, ClosingOf(s, i + 1, 1) + 1)
  ELSE UnterminatedAt(s, i + 1)

\* main has parsed the source and the parser has raised its ValueError
ParseFailed ==
  pc \in {"raise", "exit"} /\ frames = <<>> /\ exc.type = "ValueError"

\* C13 as the specification states it: a source with a "[" that begins a
\* string constant and has no matching "]" gives no program but the parse
\* error "unterminated [", whose position is the index of that "[".
C13_Original ==
  (pc # "main" /\ UnterminatedAt(source, 1) >= 0)
    => (/\ ParseFailed
        /\ exc.msg = "unterminated ["
        /\ exc.position = UnterminatedAt(source, 1))

---------------------------------------------------------------------------
(* C12 *)

\* the running interpreter is at a Command item
AtCommand ==
  /\ pc = "run" /\ Len(frames) > 0
  /\ Running.ip < Len(Running.code)
  /\ PyIndexOK(Running.code, Running.ip)
  /\ CurItem.type = "COMMAND"

\* its character
Cmd == CurItem.value.s[1]

\* the characters of set 0
Set0Chars == {"e", "f", "g", "x", "j", "z"}

\* the step of the running interpreter has ended without an error: its ip
\* is one more, its active set is k and the stack is stk
StepsTo(k, stk) ==
  /\ pc' = "run" /\ exc' = NoExc
  /\ Len(frames') = Len(frames)
  /\ frames'[Len(frames)].ip = Running.ip + 1
  /\ frames'[Len(frames)].activeset = k
  /\ stack' = stk

\* the step has failed because the active set has not the command
NoCommand ==
  /\ pc' = "raise"
  /\ exc' = [NoExc EXCEPT !.type = "CodeError",
                          !.msg = "set has no command", !.ip = Running.ip]

\* C12: on a Command item, e, f, g, x, j and z do the work of set 0 under
\* every active set; another character the active set has is not refused,
\* and one it has not (every one under set 0) fails with "set K has no
\* command", the stack, the ip and the active set staying as they were.
C12_Dispatch ==
  [][AtCommand =>
       /\ Cmd = "e" => StepsTo(1, stack)
       /\ Cmd = "f" => StepsTo(2, stack)
       /\ Cmd = "g" => StepsTo(3, stack)
       /\ Cmd = "z" => StepsTo(Running.activeset, stack)
       /\ Cmd = "j" => StepsTo(Running.activeset,
                               Append(stack, NUMT(Running.activeset)))
       /\ (Cmd = "x" /\ Len(stack) > 0 /\ IsNum(TopValue)
             /\ int(TopValue) \in 0..3)
            => StepsTo(int(TopValue), Rest)
       /\ Cmd = "x" => ~NoCommand
       /\ (Cmd \notin Set0Chars /\ Cmd \in sets[Running.activeset + 1])
            => ~NoCommand
       /\ (Cmd = "u" /\ Running.activeset = 1 /\ Len(stack) > 0)
            => StepsTo(1, Append(stack, TopValue))
       /\ (Cmd = "b" /\ Running.activeset = 3 /\ Len(stack) > 1)
            => StepsTo(3, Append(Append(SubSeq(stack, 1, Len(stack) - 2),
                                        TopValue),
                                 stack[Len(stack) - 1]))
       /\ (Cmd \notin Set0Chars /\ Cmd \notin sets[Running.activeset + 1])
            => /\ NoCommand
               /\ stack' = stack
               /\ Len(frames') = Len(frames)
               /\ frames'[Len(frames)].ip = Running.ip
               /\ frames'[Len(frames)].activeset = Running.activeset
       /\ (Cmd \notin Set0Chars /\ Running.activeset = 0) => NoCommand]_vars

\* a command of no set has been refused under set 0, the stack not empty
C12_Witness ==
  /\ pc = "raise" /\ Len(frames) = 1
  /\ exc.msg = "set has no command"
  /\ Running.activeset = 0
  /\ Len(stack) > 0

---------------------------------------------------------------------------
(* C14 *)

\* the source is one string constant [X], X with balanced brackets and a
\* group
OneString ==
  /\ Len(source) >= 2
  /\ source[1] = "[" /\ source[Len(source)] = "]"
  /\ Groups(SubSeq(source, 2, Len(source) - 1))

\* the source is e[X]q, X with balanced brackets and a group
OneStringWritten ==
  /\ Len(source) >= 4
  /\ source[1] = "e" /\ source[2] = "["
  /\ source[Len(source) - 1] = "]" /\ source[Len(source)] = "q"
  /\ Groups(SubSeq(source, 3, Len(source) - 2))

\* C14: for X with balanced brackets and at least one group, [X] parses to
\* one Item, the String constant X character for character, and q under
\* set 1 writes exactly X.
C14_RoundTrip ==
  /\ (pc # "main" /\ OneString)
       => (/\ Len(frames) = 1
           /\ frames[1].code =
                <<[type |-> "CONSTANT",
                   value |-> STRT(SubSeq(source, 2, Len(source) - 1))]>>)
  /\ (pc = "exit" /\ OneStringWritten)
       => (/\ exc = NoExc
           /\ stack = <<>>
           /\ out = SubSeq(source, 3, Len(source) - 2))

\* a text with a group in a group and one with a newline and a space have
\* been written
C14_Witness ==
  /\ pc = "exit" /\ OneStringWritten
  /\ out \in {<<"[", "[", "]", "]">>, <<"\n", "[", " ", "]">>}

---------------------------------------------------------------------------
(* C15 *)

NoBrackets(s) == \A i \in 1..Len(s) : s[i] \notin {"[", "]"}

\* an Item written back as one character
ItemChar(item) ==
  IF item.type = "COMMAND" /\ IsStr(item.value) /\ Len(item.value.s) = 1
  THEN item.value.s[1]
  ELSE IF item.type = "CONSTANT" /\ IsNum(item.value)
          /\ item.value.den = 1 /\ item.value.num \in 0..9
  THEN CHOOSE d \in Digits : DigitVal(d) = item.value.num
  ELSE "?"

Unparse(items) == [i \in 1..Len(items) |-> ItemChar(items[i])]

\* s without its spaces, newlines and tabs
Squeeze(s) == SelectSeq(s, LAMBDA c : c \notin {" ", "\n", "\t"})

\* C15: a source without "[" and "]" always parses, and its Items written
\* back as one character each are the source without spaces, newlines and
\* tabs.
C15_PlainRoundTrip ==
  (pc # "main" /\ NoBrackets(source))
    => (/\ Len(frames) >= 1
        /\ Unparse(frames[1].code) = Squeeze(source))

\* a source of a command, a tab and a digit has been parsed
C15_Witness ==
  /\ pc = "run" /\ source = <<"e", "\t", "7">>
  /\ Len(frames[1].code) = 2

---------------------------------------------------------------------------
(* C16 *)

\* the string v is rendered as by the running command: t pushes it, o
\* writes it and a newline, q writes it
RendersAs(r) ==
  \/ At("t", 1) /\ pc' = "run" /\ stack' = Append(Rest, STRT(r))
                /\ out' = out
  \/ At("o", 1) /\ pc' = "run" /\ stack' = Rest
                /\ out' = out \o r \o <<"\n">>
  \/ At("q", 1) /\ pc' = "run" /\ stack' = Rest
                /\ out' = out \o r

\* C16 as the specification states it: o, q and t under set 1 render a
\* Number as an integer without decimal point exactly when it is
\* integral-valued, and never render a Number that is not as its truncated
\* integer.
C16_Original ==
  [][(AtWithNumber("t", 1) \/ AtWithNumber("o", 1) \/ AtWithNumber("q", 1))
       => /\ TopValue.den = 1 => RendersAs(IntStr(TopValue.num))
          /\ TopValue.den # 1 => ~RendersAs(IntStr(int(TopValue)))]_vars

---------------------------------------------------------------------------
(* C17 *)

\* the stack stk with the element at index n from the bottom moved to the
\* top
LiftedFromBottom(stk, n) ==
  SubSeq(stk, 1, n) \o SubSeq(stk, n + 2, Len(stk)) \o <<stk[n + 1]>>

\* C17: k under set 3, having popped n with 0 <= n < L, leaves the depth at
\* L and moves the element at index n from the bottom to the top, the other
\* elements keeping their order.
C17_InvMove ==
  [][(AtWithNumber("k", 3) /\ 0 <= int(TopValue) /\ int(TopValue) < Len(Rest))
       => /\ pc' = "run" /\ exc' = NoExc
          /\ Len(stack') = Len(Rest)
          /\ stack' = LiftedFromBottom(Rest, int(TopValue))]_vars

\* the middle one of three different elements has been moved to the top
C17_Witness ==
  /\ pc = "exit"
  /\ Len(source) >= 2
  /\ source[Len(source) - 1] = "g" /\ source[Len(source)] = "k"
  /\ stack = <<NUMT(7), STRT(<<"a">>), NUMT(8)>>

---------------------------------------------------------------------------
(* C18 *)

\* an error, not the SystemExit of quit, is in flight
ErrorRaised == pc = "raise" /\ exc.type # "SystemExit"

\* C18: the step that raises an error does not increment the ip of its
\* interpreter, and from then on no interpreter executes an item or writes
\* output: the stack, the output and every ip stay, frames are only left,
\* the error is never dropped, and the program ends in main with its
\* report.
C18_ErrorUnwinds ==
  [][/\ (pc = "run" /\ pc' = "raise" /\ exc'.type # "SystemExit")
          => /\ Len(frames') >= 1 /\ Len(frames') <= Len(frames)
             /\ frames'[Len(frames')].ip = frames[Len(frames')].ip
             /\ out' = out
     /\ ErrorRaised
          => /\ pc' \in {"raise", "exit"}
             /\ exc'.type \notin {"", "SystemExit"}
             /\ out' = out /\ stack' = stack
             /\ Len(frames') <= Len(frames)
             /\ \A i \in 1..Len(frames') :
                  /\ frames'[i].ip = frames[i].ip
                  /\ frames'[i].code = frames[i].code
             /\ pc' = "exit" => (Len(frames) <= 1 /\ report' # "")
     /\ pc = "exit" => UNCHANGED vars]_vars

\* an error of a sub-interpreter of a sub-interpreter has reached the
\* top-level interpreter, after output
C18_Witness ==
  /\ pc = "raise" /\ Len(frames) = 1
  /\ exc.type = "CodeError" /\ Len(exc.cause) = 2
  /\ out # <<>>

---------------------------------------------------------------------------
(* C19 *)

\* the interpreter frames[p] begins a turn of the loop of while-classic:
\* it runs w under set 2, or it waits in w and its sub-interpreter is Done
WhileTurn(p) ==
  \/ p = Len(frames) /\ At("w", 2)
  \/ /\ p = Len(frames) - 1 /\ p >= 1
     /\ pc = "run"
     /\ Running.ip >= Len(Running.code)
     /\ frames[p].mode = "cWhile"

\* the turn of frames[p]: the test value is popped; false, the command ends
\* and the ip advances; true, the next value is popped, which must be a
\* String, and its sub-interpreter starts at its first item on the shared
\* stack, the ip of frames[p] staying
WhileCycle(p) ==
  IF Len(stack) = 0
  THEN pc' = "raise" /\ exc'.msg = "stack error"
       /\ frames'[p].ip = frames[p].ip
  ELSE IF ~Truthy(TopValue)
  THEN /\ pc' = "run" /\ exc' = NoExc
       /\ stack' = Rest
       /\ Len(frames') = p
       /\ frames'[p].ip = frames[p].ip + 1
  ELSE IF Len(stack) = 1
  THEN pc' = "raise" /\ exc'.msg = "stack error"
       /\ frames'[p].ip = frames[p].ip
  ELSE IF ~IsStr(Second)
  THEN pc' = "raise" /\ exc'.msg = "wrong type"
       /\ stack' = Rest2
       /\ frames'[p].ip = frames[p].ip
  ELSE IF ~parse(Second.s).ok
  THEN pc' = "raise" /\ exc'.msg = "exec: parsing of string failed"
       /\ frames'[p].ip = frames[p].ip
  ELSE /\ pc' = "run" /\ exc' = NoExc
       /\ stack' = Rest2
       /\ Len(frames') = p + 1
       /\ frames'[p].ip = frames[p].ip
       /\ frames'[p].activeset = frames[p].activeset
       /\ frames'[p + 1].ip = 0
       /\ frames'[p + 1].code = parse(Second.s).items
       /\ out' = out

\* C19: w under set 2 repeats, within one step of its interpreter, the
\* cycle of popping a test value, ending when it is false, and otherwise
\* popping a String and running it as a sub-interpreter; the next test
\* value is popped only when the sub-interpreter is Done, until then the
\* waiting interpreter does not change, and its ip advances by 1 only when
\* the loop ends.
C19_WhileClassic ==
  [][\A p \in 1..Len(frames) :
       /\ WhileTurn(p) => WhileCycle(p)
       /\ (pc = "run" /\ p < Len(frames) /\ frames[p].mode = "cWhile"
             /\ ~WhileTurn(p))
            => (Len(frames') >= p /\ frames'[p] = frames[p])]_vars

\* a while-classic has run two strings, one turn after the other, and ended
\* on a false test value
C19_Witness ==
  /\ pc = "exit" /\ exc = NoExc
  /\ Len(source) > 0 /\ source[Len(source)] = "w"
  /\ out = <<"8", "\n", "7", "\n">>
  /\ stack = <<>>

---------------------------------------------------------------------------
(* C20 *)

\* the step of the running interpreter has popped the Number on top and
\* ended without an error with ip j, the active set and the output staying
SkipsTo(j) ==
  /\ pc' = "run" /\ exc' = NoExc
  /\ Len(frames') = Len(frames)
  /\ frames'[Len(frames)].ip = j
  /\ frames'[Len(frames)].activeset = Running.activeset
  /\ stack' = Rest
  /\ out' = out

\* 2*n of a Number
Twice(n) == Num(2 * n.num, n.den)

\* the running interpreter is Done: its ip is at or past the end of its
\* program
Done == pc = "run" /\ Len(frames) >= 1 /\ Running.ip >= Len(Running.code)

\* C20: s under set 2, popping Number n at index i, gives the ip
\* i + trunc(n) + 1, and t gives i + trunc(2*n) + 1; the stack loses the
\* popped Number alone and the active set stays.  An interpreter whose ip
\* is at or past the end of its program executes nothing more: the
\* top-level one ends the program as it stands, a sub-interpreter gives way
\* to the interpreter below.
C20_SkipArithmetic ==
  [][/\ AtWithNumber("s", 2)
          => SkipsTo(Running.ip + int(TopValue) + 1)
     /\ AtWithNumber("t", 2)
          => SkipsTo(Running.ip + int(Twice(TopValue)) + 1)
     /\ (Done /\ Len(frames) = 1)
          => (pc' = "exit" /\ stack' = stack /\ out' = out
              /\ frames' = frames /\ exc' = NoExc)
     /\ (Done /\ Len(frames) > 1)
          => /\ out' = out
             /\ \/ Len(frames') < Len(frames)
                \/ /\ Len(frames') = Len(frames)
                   /\ frames'[Len(frames)].ip = 0
                   /\ frames[Len(frames) - 1].mode # "cExec"]_vars

\* t has popped 0.5 as the last but one item and the last item has been
\* skipped
C20_Witness ==
  /\ pc = "exit" /\ exc = NoExc
  /\ source = <<"e", "1", "2", "d", "f", "t", "7">>
  /\ stack = <<>>


---------------------------------------------------------------------------
(* C21 *)

\* step() has returned False in a sub-interpreter: recurse returns now
Returning ==
  pc = "run" /\ Len(frames) > 1 /\ Running.ip >= Len(Running.code)

\* the interpreter at position i after the step is one that this step has
\* constructed
Constructed(i) ==
  \/ i > Len(frames)
  \/ i = Len(frames) /\ Returning /\ Len(frames') = Len(frames)

\* the sets a Number selects: int() of it, when that is a set
Selects(v) == IF int(v) \in 0..(NumSets - 1) THEN {int(v)} ELSE {}

\* the active set that the command now executed, ending without an error,
\* may leave in place of k
SetBy(k) ==
  IF ~AtCommand \/ pc' # "run" THEN {k}
  ELSE CASE Cmd = "e" -> {1}
         [] Cmd = "f" -> {2}
         [] Cmd = "g" -> {3}
         [] Cmd = "x" -> IF Len(stack) > 0 /\ IsNum(TopValue)
                         THEN Selects(TopValue) ELSE {}
         [] OTHER -> {k}

\* x is about to pop a value that selects no set
BadSelection ==
  /\ AtCommand /\ Cmd = "x"
  /\ Len(stack) > 0
  /\ (IsNum(TopValue) => Selects(TopValue) = {})

\* the active sets after one step of the program
ActiveSetStep ==
  /\ \A i \in 1..Len(frames') :
       IF Constructed(i)
       THEN frames'[i].activeset =
              IF i = 1 THEN 0 ELSE frames'[i - 1].activeset
       ELSE IF i = Len(frames) /\ ~Returning
       THEN frames'[i].activeset \in SetBy(frames[i].activeset)
       ELSE frames'[i].activeset = frames[i].activeset
  /\ BadSelection =>
       /\ pc' = "raise" /\ exc'.type = "CodeError"
       /\ exc'.msg \in {"wrong type: expected number",
                        "no instruction set exists"}
       /\ Len(frames') = Len(frames)
       /\ frames'[Len(frames)].activeset = Running.activeset

\* C21: the active set of every interpreter is one of 0..3 in every
\* reachable state. An interpreter starts with 0, a sub-interpreter with
\* the set of the interpreter that called it; the set of an interpreter
\* changes only by e, f, g and by an x that succeeds, and an x that fails
\* on a String or on a Number whose int() is outside 0..3 leaves it. The
\* error "no such set" of step() is never raised.
C21_ActiveSetInRange ==
  /\ [](\A i \in 1..Len(frames) : frames[i].activeset \in 0..(NumSets - 1))
  /\ [](exc.msg # "no such set")
  /\ [][ActiveSetStep]_vars

\* the program f 7 [x] c j: the x of the sub-interpreter has failed on 7
\* and left set 2, the set of the interpreter that called it
C21_Witness ==
  /\ source = <<"f", "7", "[", "x", "]", "c", "j">>
  /\ pc = "raise"
  /\ Len(frames) = 2
  /\ exc.msg = "no instruction set exists"
  /\ frames[1].activeset = 2
  /\ frames[2].activeset = 2

---------------------------------------------------------------------------
(* C22 *)

\* the running interpreter is about to execute an item
AtItem ==
  pc = "run" /\ Len(frames) > 0 /\ Running.ip < Len(Running.code)

\* it is about to run a skip (set 2: s, t), an exec (set 2: c) or a while
\* (set 2: w, set 3: w)
AtLoopCommand ==
  /\ AtCommand
  /\ \/ Running.activeset = 2 /\ Cmd \in {"s", "t", "c", "w"}
     \/ Running.activeset = 3 /\ Cmd = "w"

\* the step at hand leaves the bounds of the model, which does not take it
LeavesModel ==
  AtItem /\ \E m0 \in {Machine(Running)} :
              \E m \in {step(m0)} : ~InBounds(m)

\* one interpreter, its ip between 0 and the length of its program
IpWithinProgram ==
  /\ Len(frames) <= 1
  /\ \A i \in 1..Len(frames) :
       frames[i].ip >= 0 /\ frames[i].ip <= Len(frames[i].code)

\* the program has ended: Done, a quit or an error
Terminated == pc = "exit"

\* the ip counts the steps: it starts at 0, a step that ends without an
\* error adds exactly 1 and changes neither the program nor the number of
\* interpreters, and a step that raises leaves it
StepAdvances ==
  /\ pc = "main" /\ pc' = "run" => frames'[1].ip = 0
  /\ AtItem /\ ~AtLoopCommand =>
       /\ Len(frames') = Len(frames)
       /\ frames'[Len(frames)].code = Running.code
       /\ frames'[Len(frames)].ip =
            IF pc' = "run" THEN Running.ip + 1 ELSE Running.ip

\* step() of the program's interpreter returns False, and main ends without
\* a report, exactly when the ip is at or past the end
DoneExactly ==
  pc = "run" /\ Len(frames) = 1 =>
    /\ (pc' = "exit") <=> (Running.ip >= Len(Running.code))
    /\ pc' = "exit" => exc' = NoExc /\ report' = "" /\ frames' = frames
    /\ pc' # "exit" => AtItem

\* as long as no skip, exec or while is run there is one interpreter and
\* its ip, the number of its steps, is at most the length of its program
StaysWithinProgram ==
  IpWithinProgram /\ ~AtLoopCommand => IpWithinProgram'

\* C22: a program whose execution never runs a skip (set 2: s, t), an exec
\* (set 2: c) or a while (set 2: w, set 3: w) terminates: it ends unless it
\* comes to one of these commands (or to a step outside the bounds of the
\* model). Every step that succeeds adds exactly 1 to the ip, which starts
\* at 0 and so counts the steps; the ip never passes the length of the
\* program, so the program ends with Done, a quit or an error after at most
\* as many steps as it has items; and Done is returned exactly when
\* ip >= len(program).
C22_Terminates ==
  /\ <>(Terminated \/ AtLoopCommand \/ LeavesModel)
  /\ [][StaysWithinProgram]_vars
  /\ [][StepAdvances]_vars
  /\ [][DoneExactly]_vars

\* the program e 7 7 e a has ended with Done after its five steps
C22_Witness ==
  /\ source = <<"e", "7", "7", "e", "a">>
  /\ pc = "exit"
  /\ exc = NoExc
  /\ Len(frames) = 1
  /\ frames[1].ip = 5
  /\ Len(stack) = 1 /\ stack[1].num = 14


=============================================================================
